---- MODULE Spec2Model ----
(***************************************************************************)
(* A model of the NEL client of cloudflare/nel-rs: the two TTL policy      *)
(* caches fed by nel_header and report_to_header, the bounded intake queue *)
(* fed by submit_report, and the reporter task handle_reports with its     *)
(* retry slot, retry queue and retry timer.                                *)
(*                                                                         *)
(* Time is an integer number of milliseconds.  Optional values             *)
(* (Option<T>) are sequences of length 0 or 1.  Fractions (f32 in the      *)
(* source) are integers in tenths, so 1.0 is 10 and 0.5 is 5.              *)
(***************************************************************************)
EXTENDS Integers, Sequences, FiniteSets, TLC

VARIABLES
    nel_cache,      \* NEL_POLICY_CACHE: entries in insertion order, oldest first
    group_cache,    \* GROUP_POLICY_CACHE: entries in insertion order, oldest first
    report_queue,   \* REPORT_QUEUE: reports waiting for the reporter, oldest first
    now,            \* the monotonic clock read by Instant::now()
    ticks,          \* how many times the clock has advanced
    pop,            \* handle_reports: the pop future, "pending" or "terminated"
    pc,             \* where handle_reports is: select, chooseA, postA, chooseB, postB, panicked
    cur,            \* Path A: the report popped and being handled (Option)
    policy,         \* choose_endpoint: the NEL policy cloned by the first lookup (Option)
    endpoint,       \* the endpoint URL of the post call in flight (Option)
    next_failed,    \* handle_reports: next_failed (Option<FailedReport>)
    failed_queue,   \* handle_reports: failed_queue, oldest first
    fail_timeout,   \* handle_reports: fail_timeout; <<>> is Fuse::terminated(), <<d>> fires at time d
    submitted,      \* history: number of submit_report calls so far
    accepted,       \* history: ids of the reports try_push accepted, in order
    popped,         \* history: ids of the reports the reporter popped, in order
    posts,          \* history: number of post calls made for each report id
    delivered,      \* history: ids of the reports for which a post call returned true
    in_flight,      \* history: number of post calls made that have not returned yet
    nel_report,     \* a producer's NELReport under construction: protocol, phase, error_type
    wire,           \* the ReportHeader body of the last serialize() of nel_report (Option)
    calls,          \* history: the setters called on nel_report, in order
    last            \* history: what the last step of the program did

vars == <<nel_cache, group_cache, report_queue, now, ticks, pop, pc, cur, policy, endpoint,
          next_failed, failed_queue, fail_timeout, submitted, accepted, popped,
          posts, delivered, in_flight, nel_report, wire, calls, last>>

cacheVars == <<nel_cache, group_cache>>
taskVars == <<pop, pc, cur, policy, endpoint, next_failed, failed_queue, fail_timeout>>
histVars == <<submitted, accepted, popped, posts, delivered>>
clockVars == <<now, ticks>>
buildVars == <<nel_report, wire, calls>>
reporterVars == <<cacheVars, report_queue, clockVars, taskVars, histVars, in_flight>>

(***************************************************************************)
(* Bounds of the model.  The two queue capacities and the cache capacity   *)
(* are scaled down from the source's 256, 256 and 50.                      *)
(***************************************************************************)
QueueCap == 2
FailedCap == 1
CacheCap == 2
MaxReports == 3
MaxTicks == 2
MaxCalls == 2

RETRY_TIMEOUT == 60000
RetryFloor == 10

None == <<>>
Some(v) == <<v>>
IsSome(o) == Len(o) = 1
Unwrap(o) == o[1]

(***************************************************************************)
(* ttl_cache::TtlCache as the source uses it.                              *)
(***************************************************************************)
CacheIndex(c, k) == {i \in 1..Len(c) : c[i].key = k}

CacheWithout(c, k) == SelectSeq(c, LAMBDA e : e.key # k)

\* a remove that empties the cache
CacheRemove_all(c, k) == <<>>

\* TtlCache::remove(key)
CacheRemove(c, k) == CacheWithout(c, k)

\* TtlCache::insert(key, value, ttl) at time t: the entry replaces one with
\* the same key and becomes the newest; over capacity the oldest goes.
CacheInsert(c, k, v, ttl, t) ==
    LET c1 == Append(CacheWithout(c, k), [key |-> k, value |-> v, expiration |-> t + ttl])
    IN  IF Len(c1) > CacheCap THEN Tail(c1) ELSE c1

\* get that returns an entry whatever its expiration
CacheGet_ignore_expiry(c, k, t) ==
    IF CacheIndex(c, k) = {} THEN None
    ELSE Some(c[CHOOSE i \in CacheIndex(c, k) : TRUE].value)

\* TtlCache::get(key) at time t: an expired entry is not returned.
CacheGet(c, k, t) ==
    LET live == {i \in CacheIndex(c, k) : ~(t > c[i].expiration)}
    IN  IF live = {} THEN None ELSE Some(c[CHOOSE i \in live : TRUE].value)

\* format!("{}:{}", host, group)
GroupKey(host, group) == host \o ":" \o group

(***************************************************************************)
(* Header values.  A raw header is what the JSON text carries: whether it  *)
(* is well-formed JSON at all, and each field as an Option (absent or      *)
(* present).  A number that does not fit the field's type (a negative      *)
(* max_age) is carried as it is and fails the parse.                       *)
(***************************************************************************)
\* serde_json::from_str::<NelHeader>
ParseNel(raw) ==
    IF ~raw.json \/ ~IsSome(raw.report_to) \/ ~IsSome(raw.max_age) THEN None
    ELSE IF Unwrap(raw.max_age) < 0 THEN None
    ELSE Some([report_to |-> Unwrap(raw.report_to),
               max_age |-> Unwrap(raw.max_age),
               success_fraction |->
                   IF IsSome(raw.success_fraction) THEN Unwrap(raw.success_fraction) ELSE 0,
               failure_fraction |->
                   IF IsSome(raw.failure_fraction) THEN Unwrap(raw.failure_fraction) ELSE 10])

\* the validity check without the range checks of the fractions
NelValid_no_range(parsed) == parsed.report_to # ""

NelValid(parsed) ==
    /\ parsed.report_to # ""
    /\ 0 <= parsed.success_fraction /\ parsed.success_fraction <= 10
    /\ 0 <= parsed.failure_fraction /\ parsed.failure_fraction <= 10

\* nel_header without the max_age == 0 case: the policy is inserted with a
\* lifetime of zero
NelHeaderResult_no_zero_case(c, host, raw, t) ==
    LET p == ParseNel(raw)
    IN  IF ~IsSome(p) THEN c
        ELSE IF ~NelValid(Unwrap(p)) THEN c
        ELSE CacheInsert(c, host,
                         [report_to |-> Unwrap(p).report_to,
                          success_fraction |-> Unwrap(p).success_fraction,
                          failure_fraction |-> Unwrap(p).failure_fraction],
                         Unwrap(p).max_age * 1000, t)

\* The NEL cache after nel_header(host, raw) at time t.
NelHeaderResult(c, host, raw, t) ==
    LET p == ParseNel(raw)
    IN  IF ~IsSome(p) THEN c
        ELSE IF ~NelValid(Unwrap(p)) THEN c
        ELSE IF Unwrap(p).max_age = 0 THEN CacheRemove(c, host)
        ELSE CacheInsert(c, host,
                         [report_to |-> Unwrap(p).report_to,
                          success_fraction |-> Unwrap(p).success_fraction,
                          failure_fraction |-> Unwrap(p).failure_fraction],
                         Unwrap(p).max_age * 1000, t)

\* serde_json::from_str::<ReportToHeader>
ParseReportTo(raw) ==
    IF ~raw.json \/ ~IsSome(raw.group) \/ ~IsSome(raw.max_age) \/ ~IsSome(raw.endpoints) THEN None
    ELSE IF Unwrap(raw.max_age) < 0 THEN None
    ELSE Some([group |-> Unwrap(raw.group),
               max_age |-> Unwrap(raw.max_age),
               endpoints |-> Unwrap(raw.endpoints)])

ReportToValid(parsed) ==
    /\ parsed.group # ""
    /\ parsed.endpoints # <<>>
    /\ \A i \in 1..Len(parsed.endpoints) : parsed.endpoints[i] # ""

\* The group cache after report_to_header(host, raw) at time t.
ReportToHeaderResult(c, host, raw, t) ==
    LET p == ParseReportTo(raw)
    IN  IF ~IsSome(p) THEN c
        ELSE IF ~ReportToValid(Unwrap(p)) THEN c
        ELSE IF Unwrap(p).max_age = 0 THEN CacheRemove(c, GroupKey(host, Unwrap(p).group))
        ELSE CacheInsert(c, GroupKey(host, Unwrap(p).group), Unwrap(p).endpoints,
                         Unwrap(p).max_age * 1000, t)

(***************************************************************************)
(* Reports.  A report carries the id the model gives it at submission (the *)
(* source has none: it tells one submitted report from another), its URL   *)
(* as what Url::parse makes of it, host_override and phase.                *)
(***************************************************************************)
\* NELReport::new: the fields of a report that set_protocol and set_error
\* write and serialize reads
NELReport_new == [protocol |-> "", phase |-> "", error_type |-> ""]

\* NELReport::is_success
is_success(r) == r.phase = ""

\* choose_endpoint, the host of the report
ReportHost(r) ==
    IF IsSome(r.host_override) THEN r.host_override
    ELSE IF ~r.url.parses THEN None
    ELSE r.url.host

\* choose_endpoint, first lookup: the NEL policy cached for the report's host
LookupPolicy(c, r, t) ==
    IF IsSome(ReportHost(r)) THEN CacheGet(c, Unwrap(ReportHost(r)), t) ELSE None

\* the second lookup returning an entry whatever its expiration
LookupGroup_ignore_expiry(c, r, pol, t) ==
    CacheGet_ignore_expiry(c, GroupKey(Unwrap(ReportHost(r)), pol.report_to), t)

\* choose_endpoint, second lookup: the endpoint group of the policy
LookupGroup(c, r, pol, t) ==
    CacheGet(c, GroupKey(Unwrap(ReportHost(r)), pol.report_to), t)

\* the sampling decision made whatever evaluate_drop is
Dropped_ignores_flag(r, pol, evaluate_drop, u) ==
    IF is_success(r) THEN u >= pol.success_fraction ELSE u >= pol.failure_fraction

\* the sampling decision with > in place of >=
Dropped_strict(r, pol, evaluate_drop, u) ==
    /\ evaluate_drop
    /\ IF is_success(r) THEN u > pol.success_fraction ELSE u > pol.failure_fraction

\* choose_endpoint, the sampling decision for a draw u of random::<f32>()
Dropped(r, pol, evaluate_drop, u) ==
    /\ evaluate_drop
    /\ IF is_success(r) THEN u >= pol.success_fraction ELSE u >= pol.failure_fraction

\* the values random::<f32>() takes in the model: [0, 1) in tenths
Draws == {0, 5, 9}

\* group_policy.choose(..): the endpoints the random choice can return
Choices(grp) == {grp[i] : i \in 1..Len(grp)}

(***************************************************************************)
(* Strings: str::to_lowercase and str::contains on ASCII text.             *)
(***************************************************************************)
UpperLetters == "ABCDEFGHIJKLMNOPQRSTUVWXYZ"
LowerLetters == "abcdefghijklmnopqrstuvwxyz"

\* char::to_lowercase of a one-character string
LowerChar(ch) ==
    LET hits == {i \in 1..Len(UpperLetters) : SubSeq(UpperLetters, i, i) = ch}
    IN  IF hits = {} THEN ch
        ELSE LET i == CHOOSE j \in hits : TRUE IN SubSeq(LowerLetters, i, i)

RECURSIVE to_lowercase(_)
to_lowercase(str) ==
    IF Len(str) = 0 THEN ""
    ELSE LowerChar(SubSeq(str, 1, 1)) \o to_lowercase(SubSeq(str, 2, Len(str)))

\* str::contains
contains(str, pat) ==
    \E i \in 1..(Len(str) - Len(pat) + 1) : SubSeq(str, i, i + Len(pat) - 1) = pat

(***************************************************************************)
(* The error classifier.  A transport error is the sequence of the errors  *)
(* of its source chain: the error itself, then its source(), the source of *)
(* that, and so on.  Each error of the chain is a record of its Rust type  *)
(* (ty: "io", "hyper", "reqwest", "other"), its rendered message, and for  *)
(* an io::Error its kind() and what get_ref() holds ("none", "rustls",     *)
(* "other"), for a hyper::Error the set of its is_*() tests that are true. *)
(***************************************************************************)
IoError(kind, message, inner) ==
    [ty |-> "io", kind |-> kind, message |-> message, inner |-> inner, is |-> {}]

HyperError(is, message) ==
    [ty |-> "hyper", kind |-> "", message |-> message, inner |-> "none", is |-> is]

ReqwestError(message) ==
    [ty |-> "reqwest", kind |-> "", message |-> message, inner |-> "none", is |-> {}]

OtherError(message) ==
    [ty |-> "other", kind |-> "", message |-> message, inner |-> "none", is |-> {}]

\* Error::new
Error_new(class, subclass) == [class |-> class, subclass |-> subclass]

\* Error::phase
Error_phase(err) ==
    CASE err.class = "dns" -> "dns"
      [] err.class = "tcp" -> "connection"
      [] err.class = "udp" -> "connection"
      [] err.class = "tls" -> "connection"
      [] err.class = "http" -> "application"
      [] err.class = "abandoned" -> "application"
      [] OTHER -> "unknown"

\* ToString for Error
Error_to_string(err) ==
    IF err.class = "unknown" THEN "unknown"
    ELSE IF err.class = "abandoned" THEN "abandoned"
    ELSE err.class \o "." \o err.subclass

\* the positions of the errors of type ty in the source chain of chain[1]
SourcesOfType(chain, ty) == {i \in 2..Len(chain) : chain[i].ty = ty}

\* the match made on the message as it is, not lowercased
FromIoMessage_no_lowercase(err) ==
    LET str == err.message
    IN  IF contains(str, "no address") \/ contains(str, "name or service not known")
        THEN Error_new("dns", "name_not_resolved")
        ELSE IF contains(str, "no route to host") THEN Error_new("tcp", "address_unreachable")
        ELSE IF contains(str, "unreachable") THEN Error_new("tcp", "address_unreachable")
        ELSE IF contains(str, "expired") THEN Error_new("tls", "cert.date_invalid")
        ELSE IF contains(str, "unknownissuer") THEN Error_new("tls", "cert.authority_invalid")
        ELSE IF contains(str, "certnotvalidforname") THEN Error_new("tls", "cert.name_invalid")
        ELSE IF err.inner = "none" THEN Error_new("tcp", "failed")
        ELSE IF err.inner = "rustls" THEN Error_new("tls", "protocol.error")
        ELSE Error_new("unknown", err.message)

\* From<&std::io::Error> for Error, the match on the lowercased message
FromIoMessage(err) ==
    LET str == to_lowercase(err.message)
    IN  IF contains(str, "no address") \/ contains(str, "name or service not known")
        THEN Error_new("dns", "name_not_resolved")
        ELSE IF contains(str, "no route to host") THEN Error_new("tcp", "address_unreachable")
        ELSE IF contains(str, "unreachable") THEN Error_new("tcp", "address_unreachable")
        ELSE IF contains(str, "expired") THEN Error_new("tls", "cert.date_invalid")
        ELSE IF contains(str, "unknownissuer") THEN Error_new("tls", "cert.authority_invalid")
        ELSE IF contains(str, "certnotvalidforname") THEN Error_new("tls", "cert.name_invalid")
        ELSE IF err.inner = "none" THEN Error_new("tcp", "failed")
        ELSE IF err.inner = "rustls" THEN Error_new("tls", "protocol.error")
        ELSE Error_new("unknown", err.message)

\* From<&std::io::Error> for Error
FromIo(err) ==
    CASE err.kind = "TimedOut" -> Error_new("tcp", "timed_out")
      [] err.kind = "ConnectionReset" -> Error_new("tcp", "reset")
      [] err.kind = "ConnectionRefused" -> Error_new("tcp", "refused")
      [] err.kind = "ConnectionAborted" -> Error_new("tcp", "aborted")
      [] OTHER -> FromIoMessage(err)

\* From<&hyper::Error> for Error, the branch of is_connect()
FromHyperConnect(chain) ==
    IF Len(chain) >= 2
    THEN LET s == chain[2].message
         IN  IF contains(s, "Hostname mismatch") THEN Error_new("tls", "cert.name_invalid")
             ELSE IF contains(s, "certificate has expired")
             THEN Error_new("tls", "cert.date_invalid")
             ELSE IF contains(s, "self signed certificate in certificate chain")
             THEN Error_new("tls", "cert.authority_invalid")
             ELSE Error_new("tcp", "failed")
    ELSE Error_new("tcp", "failed")

\* From<&hyper::Error> for Error; chain[1] is the hyper::Error
FromHyper(chain) ==
    LET err == chain[1]
        ios == SourcesOfType(chain, "io")
    IN  IF ios # {} THEN FromIo(chain[CHOOSE i \in ios : \A j \in ios : i <= j])
        ELSE IF "connect" \in err.is THEN FromHyperConnect(chain)
        ELSE IF "parse" \in err.is THEN Error_new("http", "response.invalid")
        ELSE IF "user" \in err.is THEN Error_new("http", "protocol.error")
        ELSE IF "incomplete_message" \in err.is THEN Error_new("tcp", "closed")
        ELSE IF "body_write_aborted" \in err.is THEN Error_new("abandoned", "")
        ELSE IF "timeout" \in err.is THEN Error_new("tcp", "timed_out")
        ELSE IF "closed" \in err.is THEN Error_new("tcp", "reset")
        ELSE IF "canceled" \in err.is THEN Error_new("tcp", "aborted")
        ELSE Error_new("unknown", err.message)

\* From<&reqwest::Error> for Error; chain[1] is the reqwest::Error
FromReqwest(chain) ==
    LET hypers == SourcesOfType(chain, "hyper")
    IN  IF hypers # {}
        THEN LET i == CHOOSE k \in hypers : \A j \in hypers : k <= j
             IN  FromHyper(SubSeq(chain, i, Len(chain)))
        ELSE Error_new("unknown", chain[1].message)

\* err.into() of set_error, for the types that have a conversion
IntoError(chain) ==
    CASE chain[1].ty = "io" -> FromIo(chain[1])
      [] chain[1].ty = "hyper" -> FromHyper(chain)
      [] chain[1].ty = "reqwest" -> FromReqwest(chain)

(***************************************************************************)
(* deadqueue::limited::Queue                                               *)
(***************************************************************************)
\* try_push without the capacity check
try_push_unbounded(q, item, cap) == Append(q, item)

\* try_push as a ring buffer: a full queue gives up its oldest item
try_push_drop_oldest(q, item, cap) ==
    IF Len(q) >= cap THEN Append(Tail(q), item) ELSE Append(q, item)

\* Queue::try_push: a full queue hands the item back and stays as it is
try_push(q, item, cap) == IF Len(q) >= cap THEN q ELSE Append(q, item)

\* pop that takes the newest item
queue_pop_newest(q) == [item |-> q[Len(q)], rest |-> SubSeq(q, 1, Len(q) - 1)]

\* Queue::pop and Queue::try_pop on a queue that is not empty: the item
\* taken and the queue left
queue_pop(q) == [item |-> Head(q), rest |-> Tail(q)]

(***************************************************************************)
(* The retry state of handle_reports, as a record of next_failed,          *)
(* failed_queue and fail_timeout.                                          *)
(***************************************************************************)
RetryState == [next_failed |-> next_failed, failed_queue |-> failed_queue,
               fail_timeout |-> fail_timeout]

\* Path A arming the timer again when the report goes to the retry queue
RetryAfterFirstFailure_rearm(rs, r, t) ==
    LET failed == [last_try |-> t, original |-> r]
    IN  IF ~IsSome(rs.next_failed)
        THEN [rs EXCEPT !.fail_timeout = Some(t + RETRY_TIMEOUT),
                        !.next_failed = Some(failed)]
        ELSE [rs EXCEPT !.fail_timeout = Some(t + RETRY_TIMEOUT),
                        !.failed_queue = try_push(rs.failed_queue, failed, FailedCap)]

\* Path A pushing every failed report onto the retry queue
RetryAfterFirstFailure_queue_only(rs, r, t) ==
    LET failed == [last_try |-> t, original |-> r]
    IN  [rs EXCEPT !.failed_queue = try_push(rs.failed_queue, failed, FailedCap)]

\* Path A giving up the report when next_failed is taken
RetryAfterFirstFailure_no_push(rs, r, t) ==
    LET failed == [last_try |-> t, original |-> r]
    IN  IF ~IsSome(rs.next_failed)
        THEN [rs EXCEPT !.fail_timeout = Some(t + RETRY_TIMEOUT),
                        !.next_failed = Some(failed)]
        ELSE rs

\* Path A setting next_failed without arming the timer
RetryAfterFirstFailure_no_timer(rs, r, t) ==
    LET failed == [last_try |-> t, original |-> r]
    IN  IF ~IsSome(rs.next_failed)
        THEN [rs EXCEPT !.next_failed = Some(failed)]
        ELSE [rs EXCEPT !.failed_queue = try_push(rs.failed_queue, failed, FailedCap)]

\* Path A, lines 170-181: the first attempt for report r failed at time t
RetryAfterFirstFailure(rs, r, t) ==
    LET failed == [last_try |-> t, original |-> r]
    IN  IF ~IsSome(rs.next_failed)
        THEN [rs EXCEPT !.fail_timeout = Some(t + RETRY_TIMEOUT),
                        !.next_failed = Some(failed)]
        ELSE [rs EXCEPT !.failed_queue = try_push(rs.failed_queue, failed, FailedCap)]

\* the sleep before a retry always the 10 ms of line 207
RetryDelay_always_floor(elapsed) == RetryFloor

\* Path B, lines 205-207: the sleep before the retry of an entry last tried
\* elapsed milliseconds ago
RetryDelay(elapsed) ==
    IF RETRY_TIMEOUT - elapsed >= 0 THEN RETRY_TIMEOUT - elapsed ELSE RetryFloor

\* Path B without the test of success: the report is pushed back after
\* every retry
RetryAfterRetry_always_requeue(rs, success, t) ==
    LET q == try_push(rs.failed_queue,
                      [last_try |-> t, original |-> Unwrap(rs.next_failed).original],
                      FailedCap)
    IN  IF q # <<>>
        THEN [next_failed |-> Some(queue_pop(q).item),
              failed_queue |-> queue_pop(q).rest,
              fail_timeout |-> Some(t + RetryDelay(t - queue_pop(q).item.last_try))]
        ELSE [next_failed |-> None, failed_queue |-> q, fail_timeout |-> None]

\* Path B without the push: a report whose retry failed is given up
RetryAfterRetry_never_requeue(rs, success, t) ==
    LET q == rs.failed_queue
    IN  IF q # <<>>
        THEN [next_failed |-> Some(queue_pop(q).item),
              failed_queue |-> queue_pop(q).rest,
              fail_timeout |-> Some(t + RetryDelay(t - queue_pop(q).item.last_try))]
        ELSE [next_failed |-> None, failed_queue |-> q, fail_timeout |-> None]

\* Path B arming the timer again although the retry queue is empty
RetryAfterRetry_keep_timer(rs, success, t) ==
    LET q == IF success THEN rs.failed_queue
             ELSE try_push(rs.failed_queue,
                           [last_try |-> t, original |-> Unwrap(rs.next_failed).original],
                           FailedCap)
    IN  IF q # <<>>
        THEN [next_failed |-> Some(queue_pop(q).item),
              failed_queue |-> queue_pop(q).rest,
              fail_timeout |-> Some(t + RetryDelay(t - queue_pop(q).item.last_try))]
        ELSE [next_failed |-> None, failed_queue |-> q,
              fail_timeout |-> Some(t + RETRY_TIMEOUT)]

\* Path B, lines 196-213: the retry of next_failed ended at time t
RetryAfterRetry(rs, success, t) ==
    LET q == IF success THEN rs.failed_queue
             ELSE try_push(rs.failed_queue,
                           [last_try |-> t, original |-> Unwrap(rs.next_failed).original],
                           FailedCap)
    IN  IF q # <<>>
        THEN [next_failed |-> Some(queue_pop(q).item),
              failed_queue |-> queue_pop(q).rest,
              fail_timeout |-> Some(t + RetryDelay(t - queue_pop(q).item.last_try))]
        ELSE [next_failed |-> None, failed_queue |-> q, fail_timeout |-> None]

SetRetryState(rs) ==
    /\ next_failed' = rs.next_failed
    /\ failed_queue' = rs.failed_queue
    /\ fail_timeout' = rs.fail_timeout

(***************************************************************************)
(* Inputs of the model.                                                    *)
(***************************************************************************)
NelRaw(js, rt, ma, sf, ff) ==
    [json |-> js, report_to |-> rt, max_age |-> ma,
     success_fraction |-> sf, failure_fraction |-> ff]

ReportToRaw(js, g, ma, eps) ==
    [json |-> js, group |-> g, max_age |-> ma, endpoints |-> eps]

\* {"report_to":"g","max_age":60}
NelInputs ==
    { NelRaw(TRUE, Some("g"), Some(60), None, None) }

\* {"group":"g","max_age":60,"endpoints":[{"url":"https://c/r"}]}
ReportToInputs ==
    { ReportToRaw(TRUE, Some("g"), Some(60), Some(<<"https://c/r">>)) }

HostInputs == {"h"}

\* an error report for https://h/
ReportInputs ==
    { [url |-> [parses |-> TRUE, host |-> Some("h")], host_override |-> None,
       phase |-> "connection"] }

\* the clock advances by whole retry timeouts
TickSteps == {RETRY_TIMEOUT}

WithId(r, n) ==
    [id |-> n, url |-> r.url, host_override |-> r.host_override, phase |-> r.phase]

(***************************************************************************)
(* The state after construction: empty caches and queues, the reporter at  *)
(* its select with the retry timer terminated.                             *)
(***************************************************************************)
Init ==
    /\ nel_cache = <<>>
    /\ group_cache = <<>>
    /\ report_queue = <<>>
    /\ now = 0
    /\ ticks = 0
    /\ pop = "pending"
    /\ pc = "select"
    /\ cur = None
    /\ policy = None
    /\ endpoint = None
    /\ next_failed = None
    /\ failed_queue = <<>>
    /\ fail_timeout = None
    /\ submitted = 0
    /\ accepted = <<>>
    /\ popped = <<>>
    /\ posts = [i \in 1..MaxReports |-> 0]
    /\ delivered = {}
    /\ in_flight = 0
    /\ nel_report = NELReport_new
    /\ wire = None
    /\ calls = <<>>
    /\ last = [op |-> "init"]

(***************************************************************************)
(* The callers of the library.                                             *)
(***************************************************************************)
nel_header(host, raw) ==
    /\ nel_cache' = NelHeaderResult(nel_cache, host, raw, now)
    /\ last' = [op |-> "nel_header", host |-> host, raw |-> raw,
                hit |-> CacheIndex(nel_cache, host) # {}]
    /\ UNCHANGED <<group_cache, report_queue, clockVars, taskVars, histVars>>
    /\ UNCHANGED <<in_flight, buildVars>>

report_to_header(host, raw) ==
    /\ group_cache' = ReportToHeaderResult(group_cache, host, raw, now)
    /\ last' = [op |-> "report_to_header", host |-> host, raw |-> raw,
                hit |-> /\ IsSome(raw.group)
                        /\ CacheIndex(group_cache, GroupKey(host, Unwrap(raw.group))) # {}]
    /\ UNCHANGED <<nel_cache, report_queue, clockVars, taskVars, histVars>>
    /\ UNCHANGED <<in_flight, buildVars>>

submit_report(r) ==
    /\ submitted < MaxReports
    /\ submitted' = submitted + 1
    /\ report_queue' = try_push(report_queue, WithId(r, submitted + 1), QueueCap)
    /\ accepted' = IF report_queue' # report_queue
                   THEN Append(accepted, submitted + 1) ELSE accepted
    /\ last' = [op |-> "submit_report", id |-> submitted + 1, full |-> Len(report_queue)]
    /\ UNCHANGED <<cacheVars, clockVars, taskVars, popped, posts, delivered>>
    /\ UNCHANGED <<in_flight, buildVars>>

\* the clock advances
Tick(d) ==
    /\ ticks < MaxTicks
    /\ ticks' = ticks + 1
    /\ now' = now + d
    /\ last' = [op |-> "tick"]
    /\ UNCHANGED <<cacheVars, report_queue, taskVars, histVars>>
    /\ UNCHANGED <<in_flight, buildVars>>

(***************************************************************************)
(* handle_reports.  The task is at its select (pc = "select"), between the *)
(* two cache lookups of choose_endpoint (chooseA, chooseB), or awaiting a  *)
(* post call (postA, postB).                                               *)
(***************************************************************************)
\* a task that polls its two futures while a post call is awaited as well
AtSelect_while_posting == pc \in {"select", "postA", "postB"}

\* select!: the task polls the pop future and the retry timer only when it
\* is at the select of its loop; a post call is awaited inside a branch
AtSelect == pc = "select"

\* Path A without line 184: the pop future is not set again
EndPathA_no_pop_set(r, success) ==
    /\ SetRetryState(IF success THEN RetryState
                     ELSE RetryAfterFirstFailure(RetryState, r, now))
    /\ pop' = "terminated"
    /\ pc' = "select"
    /\ cur' = None
    /\ policy' = None
    /\ endpoint' = None

\* Path A ends with the given outcome for report r
EndPathA(r, success) ==
    /\ SetRetryState(IF success THEN RetryState
                     ELSE RetryAfterFirstFailure(RetryState, r, now))
    /\ pop' = "pending"
    /\ pc' = "select"
    /\ cur' = None
    /\ policy' = None
    /\ endpoint' = None

\* Path B ends with the given outcome for next_failed
EndPathB(success) ==
    /\ SetRetryState(RetryAfterRetry(RetryState, success, now))
    /\ pop' = pop
    /\ pc' = "select"
    /\ policy' = None
    /\ endpoint' = None
    /\ cur' = None

\* select: the pop future completes; choose_endpoint starts
PopReport ==
    /\ AtSelect
    /\ pop = "pending"
    /\ report_queue # <<>>
    /\ LET r == queue_pop(report_queue).item
           pol == LookupPolicy(nel_cache, r, now)
       IN  /\ report_queue' = queue_pop(report_queue).rest
           /\ popped' = Append(popped, r.id)
           /\ IF IsSome(pol)
              THEN /\ pop' = "terminated"
                   /\ pc' = "chooseA"
                   /\ cur' = Some(r)
                   /\ policy' = pol
                   /\ last' = [op |-> "pop", id |-> r.id, found |-> TRUE]
                   /\ UNCHANGED <<endpoint, next_failed, failed_queue, fail_timeout>>
              ELSE /\ EndPathA(r, TRUE)
                   /\ last' = [op |-> "pop", id |-> r.id, found |-> FALSE]
    /\ UNCHANGED <<cacheVars, clockVars, submitted, accepted, posts, delivered>>
    /\ UNCHANGED <<in_flight, buildVars>>

\* Path A: the second lookup, the sampling draw and the choice of endpoint
ChooseA(u) ==
    /\ pc = "chooseA"
    /\ LET r == Unwrap(cur)
           grp == LookupGroup(group_cache, r, Unwrap(policy), now)
       IN  IF ~IsSome(grp)
           THEN /\ EndPathA(r, TRUE)
                /\ last' = [op |-> "chooseA", id |-> r.id, result |-> "nogroup", u |-> u]
                /\ UNCHANGED <<posts, in_flight>>
           ELSE IF Dropped(r, Unwrap(policy), TRUE, u) \/ Choices(Unwrap(grp)) = {}
           THEN /\ EndPathA(r, TRUE)
                /\ last' = [op |-> "chooseA", id |-> r.id, result |-> "dropped", u |-> u]
                /\ UNCHANGED <<posts, in_flight>>
           ELSE \E ep \in Choices(Unwrap(grp)) :
                /\ pc' = "postA"
                /\ endpoint' = Some(ep)
                /\ posts' = [posts EXCEPT ![r.id] = @ + 1]
                /\ in_flight' = in_flight + 1
                /\ last' = [op |-> "chooseA", id |-> r.id, result |-> "post", u |-> u]
                /\ UNCHANGED <<pop, cur, policy, next_failed, failed_queue, fail_timeout>>
    /\ UNCHANGED <<cacheVars, report_queue, clockVars, submitted, accepted, popped, delivered>>
    /\ UNCHANGED buildVars

\* Path A: the post call returns ok
PostDoneA(ok) ==
    /\ pc = "postA"
    /\ EndPathA(Unwrap(cur), ok)
    /\ delivered' = IF ok THEN delivered \cup {Unwrap(cur).id} ELSE delivered
    /\ last' = [op |-> "postA", id |-> Unwrap(cur).id, ok |-> ok,
                slot |-> ~IsSome(next_failed), full |-> Len(failed_queue)]
    /\ in_flight' = in_flight - 1
    /\ UNCHANGED <<cacheVars, report_queue, clockVars, submitted, accepted, popped, posts>>
    /\ UNCHANGED buildVars

\* select: the retry timer fires; choose_endpoint starts for next_failed
TimerFire ==
    /\ AtSelect
    /\ IsSome(fail_timeout)
    /\ now >= Unwrap(fail_timeout)
    /\ IF ~IsSome(next_failed)
       THEN /\ pc' = "panicked"
            /\ fail_timeout' = None
            /\ last' = [op |-> "timer", id |-> 0, found |-> FALSE,
                        deadline |-> Unwrap(fail_timeout)]
            /\ UNCHANGED <<pop, cur, policy, endpoint, next_failed, failed_queue>>
       ELSE LET r == Unwrap(next_failed).original
                pol == LookupPolicy(nel_cache, r, now)
            IN  IF IsSome(pol)
                THEN /\ pc' = "chooseB"
                     /\ policy' = pol
                     /\ fail_timeout' = None
                     /\ last' = [op |-> "timer", id |-> r.id, found |-> TRUE,
                                 deadline |-> Unwrap(fail_timeout)]
                     /\ UNCHANGED <<pop, cur, endpoint, next_failed, failed_queue>>
                ELSE /\ EndPathB(TRUE)
                     /\ last' = [op |-> "timer", id |-> r.id, found |-> FALSE,
                                 deadline |-> Unwrap(fail_timeout)]
    /\ UNCHANGED <<cacheVars, report_queue, clockVars, histVars>>
    /\ UNCHANGED <<in_flight, buildVars>>

\* Path B: the second lookup and the choice of endpoint (no sampling)
ChooseB(u) ==
    /\ pc = "chooseB"
    /\ LET r == Unwrap(next_failed).original
           grp == LookupGroup(group_cache, r, Unwrap(policy), now)
       IN  IF ~IsSome(grp)
           THEN /\ EndPathB(TRUE)
                /\ last' = [op |-> "chooseB", id |-> r.id, result |-> "nogroup", u |-> u]
                /\ UNCHANGED <<posts, in_flight>>
           ELSE IF Dropped(r, Unwrap(policy), FALSE, u) \/ Choices(Unwrap(grp)) = {}
           THEN /\ EndPathB(TRUE)
                /\ last' = [op |-> "chooseB", id |-> r.id, result |-> "dropped", u |-> u]
                /\ UNCHANGED <<posts, in_flight>>
           ELSE \E ep \in Choices(Unwrap(grp)) :
                /\ pc' = "postB"
                /\ endpoint' = Some(ep)
                /\ posts' = [posts EXCEPT ![r.id] = @ + 1]
                /\ in_flight' = in_flight + 1
                /\ last' = [op |-> "chooseB", id |-> r.id, result |-> "post", u |-> u]
                /\ UNCHANGED <<pop, cur, policy, next_failed, failed_queue, fail_timeout>>
    /\ UNCHANGED <<cacheVars, report_queue, clockVars, submitted, accepted, popped, delivered>>
    /\ UNCHANGED buildVars

\* Path B: the post call returns ok
PostDoneB(ok) ==
    /\ pc = "postB"
    /\ EndPathB(ok)
    /\ delivered' = IF ok THEN delivered \cup {Unwrap(next_failed).original.id} ELSE delivered
    /\ last' = [op |-> "postB", id |-> Unwrap(next_failed).original.id, ok |-> ok,
                slot |-> FALSE, full |-> Len(failed_queue)]
    /\ in_flight' = in_flight - 1
    /\ UNCHANGED <<cacheVars, report_queue, clockVars, submitted, accepted, popped, posts>>
    /\ UNCHANGED buildVars

Next ==
    \/ \E host \in HostInputs, raw \in NelInputs : nel_header(host, raw)
    \/ \E host \in HostInputs, raw \in ReportToInputs : report_to_header(host, raw)
    \/ \E r \in ReportInputs : submit_report(r)
    \/ \E d \in TickSteps : Tick(d)
    \/ PopReport
    \/ \E u \in Draws : ChooseA(u)
    \/ \E ok \in BOOLEAN : PostDoneA(ok)
    \/ TimerFire
    \/ \E u \in Draws : ChooseB(u)
    \/ \E ok \in BOOLEAN : PostDoneB(ok)

Spec == Init /\ [][Next]_vars

TypeOK ==
    /\ pc \in {"select", "chooseA", "postA", "chooseB", "postB", "panicked"}
    /\ pop \in {"pending", "terminated"}
    /\ Len(report_queue) <= QueueCap
    /\ Len(failed_queue) <= FailedCap

(***************************************************************************)
(* The reporter under fair scheduling, started in the state the program is *)
(* in once a NEL header and a Report-To header for host h have been taken  *)
(* in at time 0: a post call in flight returns, a lookup in progress goes  *)
(* on, and a select with the pop future ready again and again takes the    *)
(* pop branch at some point (select! picks among the ready branches at     *)
(* random).                                                                *)
(***************************************************************************)
LiveInit ==
    /\ nel_cache = NelHeaderResult(<<>>, "h", NelRaw(TRUE, Some("g"), Some(60), None, None), 0)
    /\ group_cache = ReportToHeaderResult(<<>>, "h",
                        ReportToRaw(TRUE, Some("g"), Some(60), Some(<<"https://c/r">>)), 0)
    /\ report_queue = <<>>
    /\ now = 0
    /\ ticks = 0
    /\ pop = "pending"
    /\ pc = "select"
    /\ cur = None
    /\ policy = None
    /\ endpoint = None
    /\ next_failed = None
    /\ failed_queue = <<>>
    /\ fail_timeout = None
    /\ submitted = 0
    /\ accepted = <<>>
    /\ popped = <<>>
    /\ posts = [i \in 1..MaxReports |-> 0]
    /\ delivered = {}
    /\ in_flight = 0
    /\ nel_report = NELReport_new
    /\ wire = None
    /\ calls = <<>>
    /\ last = [op |-> "init"]

LiveNext ==
    \/ \E r \in ReportInputs : submit_report(r)
    \/ \E d \in TickSteps : Tick(d)
    \/ PopReport
    \/ \E u \in Draws : ChooseA(u)
    \/ \E ok \in BOOLEAN : PostDoneA(ok)
    \/ TimerFire
    \/ \E u \in Draws : ChooseB(u)
    \/ \E ok \in BOOLEAN : PostDoneB(ok)

FairSpec ==
    /\ LiveInit /\ [][LiveNext]_vars
    /\ SF_vars(PopReport)
    /\ WF_vars(\E u \in Draws : ChooseA(u))
    /\ WF_vars(\E ok \in BOOLEAN : PostDoneA(ok))
    /\ WF_vars(\E u \in Draws : ChooseB(u))
    /\ WF_vars(\E ok \in BOOLEAN : PostDoneB(ok))

(***************************************************************************)
(* The reporter on a finer clock: time advances by the 10 ms of line 207   *)
(* or by a whole retry timeout, at most MaxAdvances times, from the state  *)
(* the program is in once a NEL header and a Report-To header for host h   *)
(* with a max_age of one day have been taken in at time 0.                 *)
(***************************************************************************)
MaxAdvances == 3

TimeSteps == {RetryFloor, RETRY_TIMEOUT}

TimeInit ==
    /\ nel_cache = NelHeaderResult(<<>>, "h",
                        NelRaw(TRUE, Some("g"), Some(86400), None, None), 0)
    /\ group_cache = ReportToHeaderResult(<<>>, "h",
                        ReportToRaw(TRUE, Some("g"), Some(86400),
                                    Some(<<"https://c/r">>)), 0)
    /\ report_queue = <<>>
    /\ now = 0
    /\ ticks = 0
    /\ pop = "pending"
    /\ pc = "select"
    /\ cur = None
    /\ policy = None
    /\ endpoint = None
    /\ next_failed = None
    /\ failed_queue = <<>>
    /\ fail_timeout = None
    /\ submitted = 0
    /\ accepted = <<>>
    /\ popped = <<>>
    /\ posts = [i \in 1..MaxReports |-> 0]
    /\ delivered = {}
    /\ in_flight = 0
    /\ nel_report = NELReport_new
    /\ wire = None
    /\ calls = <<>>
    /\ last = [op |-> "init"]

\* the clock advances by d
Advance(d) ==
    /\ ticks < MaxAdvances
    /\ ticks' = ticks + 1
    /\ now' = now + d
    /\ last' = [op |-> "tick"]
    /\ UNCHANGED <<cacheVars, report_queue, taskVars, histVars>>
    /\ UNCHANGED <<in_flight, buildVars>>

TimeNext ==
    \/ \E r \in ReportInputs : submit_report(r)
    \/ \E d \in TimeSteps : Advance(d)
    \/ PopReport
    \/ \E u \in Draws : ChooseA(u)
    \/ \E ok \in BOOLEAN : PostDoneA(ok)
    \/ TimerFire
    \/ \E u \in Draws : ChooseB(u)
    \/ \E ok \in BOOLEAN : PostDoneB(ok)

SpecTime == TimeInit /\ [][TimeNext]_vars

(***************************************************************************)
(* The header parsers alone, on a wider set of header values and hosts.    *)
(***************************************************************************)
HdrNelInputs ==
    { NelRaw(FALSE, None, None, None, None),
      NelRaw(TRUE, Some("g"), Some(-1), None, None),
      NelRaw(TRUE, Some(""), Some(60), None, None),
      NelRaw(TRUE, Some(""), Some(0), None, None),
      NelRaw(TRUE, Some("g"), Some(60), Some(11), None),
      NelRaw(TRUE, Some("g"), Some(0), None, Some(-1)),
      NelRaw(TRUE, Some("g"), Some(60), None, None),
      NelRaw(TRUE, Some("g"), Some(0), None, None) }

HdrReportToInputs ==
    { ReportToRaw(FALSE, None, None, None),
      ReportToRaw(TRUE, Some("g"), Some(0), None),
      ReportToRaw(TRUE, Some(""), Some(60), Some(<<"https://c/r">>)),
      ReportToRaw(TRUE, Some("g"), Some(60), Some(<<>>)),
      ReportToRaw(TRUE, Some("g"), Some(0), Some(<<>>)),
      ReportToRaw(TRUE, Some("g"), Some(60), Some(<<"https://c/r", "">>)),
      ReportToRaw(TRUE, Some("g"), Some(60), Some(<<"https://c/r">>)),
      ReportToRaw(TRUE, Some("x:g"), Some(120), Some(<<"https://d/r", "https://c/r">>)),
      ReportToRaw(TRUE, Some("g"), Some(0), Some(<<"https://c/r">>)) }

\* the calls made: every header value for host h, and the accepted ones
\* with a lifetime for host h:x
HdrNelCalls ==
    {<<"h", raw>> : raw \in HdrNelInputs}
        \cup {<<"h:x", raw>> : raw \in {r \in HdrNelInputs : ParseNel(r) # None
                                          /\ NelValid(Unwrap(ParseNel(r)))
                                          /\ Unwrap(ParseNel(r)).max_age > 0}}

HdrReportToCalls ==
    {<<"h", raw>> : raw \in HdrReportToInputs}
        \cup {<<"h:x", raw>> : raw \in {r \in HdrReportToInputs : ParseReportTo(r) # None
                                          /\ ReportToValid(Unwrap(ParseReportTo(r)))
                                          /\ Unwrap(ParseReportTo(r)).max_age > 0}}

HdrNext ==
    \/ \E call \in HdrNelCalls : nel_header(call[1], call[2])
    \/ \E call \in HdrReportToCalls : report_to_header(call[1], call[2])
    \/ \E d \in TickSteps : Tick(d)

SpecHdr == Init /\ [][HdrNext]_vars

(***************************************************************************)
(* A producer building a report: NELReport::new, then set_protocol and     *)
(* set_error in any order, at most MaxCalls setter calls on one report,    *)
(* and serialize at any point.                                             *)
(***************************************************************************)
\* opt_to_string
opt_to_string(input) == IF IsSome(input) THEN Unwrap(input) ELSE ""

\* set_error without the test of the protocol
SetErrorResult_no_substitution(report, chain) ==
    LET e == IntoError(chain)
    IN  [report EXCEPT !.phase = Error_phase(e), !.error_type = Error_to_string(e)]

\* NELReport::set_error: the report after set_error of the transport error
SetErrorResult(report, chain) ==
    LET e == IntoError(chain)
        err == IF report.protocol = "wireguard" /\ e.class = "tcp"
               THEN [e EXCEPT !.class = "udp"] ELSE e
    IN  [report EXCEPT !.phase = Error_phase(err), !.error_type = Error_to_string(err)]

\* From<&NELReport> for ReportHeader: the fields of the body that depend on
\* the protocol and the error
ReportBody(report) ==
    [protocol |-> report.protocol,
     phase |-> IF is_success(report) THEN "application" ELSE report.phase,
     type |-> IF is_success(report) THEN "ok" ELSE report.error_type]

ProtocolInputs == {None, Some("h2"), Some("wireguard")}

ErrorInputs ==
    { <<IoError("TimedOut", "connection timed out", "none")>>,
      <<IoError("ConnectionReset", "Connection reset: certificate expired", "none")>>,
      <<IoError("ConnectionRefused", "Connection refused (os error 111)", "none")>>,
      <<IoError("ConnectionAborted", "aborted", "other")>>,
      <<IoError("Other", "failed to lookup address information: Name or service not known",
                "other")>>,
      <<IoError("Other", "No address associated with hostname", "other")>>,
      <<IoError("Other", "No route to host (os error 113)", "none")>>,
      <<IoError("Other", "Network is unreachable (os error 101)", "none")>>,
      <<IoError("InvalidData", "invalid peer certificate: Expired", "rustls")>>,
      <<IoError("InvalidData", "invalid peer certificate: UnknownIssuer", "rustls")>>,
      <<IoError("InvalidData", "invalid peer certificate: CertNotValidForName", "rustls")>>,
      <<IoError("InvalidData", "received corrupt message", "rustls")>>,
      <<IoError("NotFound", "entity not found", "none")>>,
      <<IoError("Other", "boom", "other")>>,
      <<HyperError({"connect"}, "error trying to connect"), OtherError("Hostname mismatch")>>,
      <<HyperError({"connect"}, "error trying to connect"), OtherError("hostname mismatch")>>,
      <<HyperError({"connect"}, "error trying to connect"),
        OtherError("error:0A000086:certificate verify failed: certificate has expired")>>,
      <<HyperError({"connect"}, "error trying to connect"),
        OtherError("self signed certificate in certificate chain")>>,
      <<HyperError({"connect", "timeout"}, "error trying to connect"), OtherError("deadline")>>,
      <<HyperError({"connect"}, "error trying to connect")>>,
      <<HyperError({"parse"}, "invalid HTTP version parsed: expired")>>,
      <<HyperError({"user"}, "user error")>>,
      <<HyperError({"incomplete_message"}, "connection closed before message completed")>>,
      <<HyperError({"body_write_aborted"}, "user body write aborted")>>,
      <<HyperError({"timeout"}, "operation timed out"), OtherError("deadline")>>,
      <<HyperError({"closed"}, "channel closed")>>,
      <<HyperError({"canceled"}, "operation was canceled")>>,
      <<HyperError({}, "error shutting down connection")>>,
      <<HyperError({"timeout"}, "operation timed out"), OtherError("tls"),
        IoError("InvalidData", "received corrupt message", "rustls")>>,
      <<HyperError({"parse"}, "invalid HTTP"), IoError("UnexpectedEof", "eof", "none")>>,
      <<ReqwestError("error sending request"),
        HyperError({"connect"}, "error trying to connect"),
        IoError("ConnectionRefused", "Connection refused (os error 111)", "none")>>,
      <<ReqwestError("error sending request"), OtherError("x"),
        HyperError({"canceled"}, "operation was canceled")>>,
      <<ReqwestError("builder error"), OtherError("relative URL without a base")>> }

NewReport ==
    /\ nel_report' = NELReport_new
    /\ wire' = None
    /\ calls' = <<>>
    /\ last' = [op |-> "new"]
    /\ UNCHANGED reporterVars

set_protocol(val) ==
    /\ Len(calls) < MaxCalls
    /\ nel_report' = [nel_report EXCEPT !.protocol = opt_to_string(val)]
    /\ calls' = Append(calls, [op |-> "set_protocol", protocol |-> opt_to_string(val),
                                class |-> "", subclass |-> ""])
    /\ last' = [op |-> "set_protocol"]
    /\ UNCHANGED <<reporterVars, wire>>

set_error(chain) ==
    /\ Len(calls) < MaxCalls
    /\ nel_report' = SetErrorResult(nel_report, chain)
    /\ calls' = Append(calls, [op |-> "set_error", protocol |-> nel_report.protocol,
                                class |-> IntoError(chain).class,
                                subclass |-> IntoError(chain).subclass])
    /\ last' = [op |-> "set_error", err |-> chain]
    /\ UNCHANGED <<reporterVars, wire>>

serialize ==
    /\ wire' = Some(ReportBody(nel_report))
    /\ last' = [op |-> "serialize"]
    /\ UNCHANGED <<reporterVars, nel_report, calls>>

RepNext ==
    \/ NewReport
    \/ \E val \in ProtocolInputs : set_protocol(val)
    \/ \E chain \in ErrorInputs : set_error(chain)
    \/ serialize

SpecRep == Init /\ [][RepNext]_vars

(***************************************************************************)
(* The endpoint selector on policies with sampling fractions 0, 0.5 and 1, *)
(* success and error reports, header removals and an endpoint group of two *)
(* URLs; the reporter handles SelMaxReports reports.                       *)
(***************************************************************************)
SelMaxReports == 1

SelNelInputs ==
    { NelRaw(TRUE, Some("g"), Some(60), Some(0), Some(0)),
      NelRaw(TRUE, Some("g"), Some(60), Some(10), Some(5)),
      NelRaw(TRUE, Some("g"), Some(0), None, None) }

SelReportToInputs ==
    { ReportToRaw(TRUE, Some("g"), Some(60), Some(<<"https://c/r", "https://d/r">>)),
      ReportToRaw(TRUE, Some("g"), Some(0), Some(<<"https://c/r">>)) }

\* a success report and an error report for https://h/
SelReportInputs ==
    { [url |-> [parses |-> TRUE, host |-> Some("h")], host_override |-> None, phase |-> ""],
      [url |-> [parses |-> TRUE, host |-> Some("h")], host_override |-> None,
       phase |-> "connection"] }

SelNext ==
    \/ \E raw \in SelNelInputs : nel_header("h", raw)
    \/ \E raw \in SelReportToInputs : report_to_header("h", raw)
    \/ \E r \in SelReportInputs : submitted < SelMaxReports /\ submit_report(r)
    \/ \E d \in TickSteps : Tick(d)
    \/ PopReport
    \/ \E u \in Draws : ChooseA(u)
    \/ \E ok \in BOOLEAN : PostDoneA(ok)
    \/ TimerFire
    \/ \E u \in Draws : ChooseB(u)
    \/ \E ok \in BOOLEAN : PostDoneB(ok)

SpecSel == Init /\ [][SelNext]_vars

(***************************************************************************)
(* Properties.                                                             *)
(***************************************************************************)
QueueIds(q) == [i \in 1..Len(q) |-> q[i].id]

\* C1: the intake queue never holds more reports than its capacity, and a
\* submit_report call made while the queue is full (it is a single step,
\* enabled whatever the queue holds) discards the submitted report and
\* leaves the queue contents unchanged.
C1_IntakeBounded ==
    /\ [](Len(report_queue) <= QueueCap)
    /\ [][(submitted' = submitted + 1 /\ Len(report_queue) = QueueCap)
            => /\ report_queue' = report_queue
               /\ \A i \in 1..Len(report_queue') : report_queue'[i].id # submitted']_vars

C1_Witness ==
    /\ last.op = "submit_report"
    /\ last.full = QueueCap
    /\ Len(report_queue) = QueueCap
    /\ submitted > Len(accepted)

\* C2: the accepted reports leave the intake queue in the order they were
\* accepted and none leaves it twice: the ids popped so far, followed by
\* the ids still queued, are the ids accepted so far, which are all
\* different.
C2_PoppedInOrder ==
    /\ accepted = popped \o QueueIds(report_queue)
    /\ \A i, j \in 1..Len(accepted) : i < j => accepted[i] < accepted[j]

C2_Witness ==
    /\ Len(popped) >= 2
    /\ report_queue # <<>>

\* the ids of the reports in the retry state: next_failed and the retry queue
RetryIds ==
    {next_failed[i].original.id : i \in 1..Len(next_failed)}
        \cup {failed_queue[i].original.id : i \in 1..Len(failed_queue)}

\* an unexpired entry is cached under key k
LiveIn(c, k) == \E i \in 1..Len(c) : c[i].key = k /\ c[i].expiration >= now

\* no unexpired NEL policy is cached for the host of report r
NoPolicyFor(r) ==
    IsSome(ReportHost(r)) => ~LiveIn(nel_cache, Unwrap(ReportHost(r)))

\* no unexpired endpoint group is cached for report r under the report_to
\* of the policy the selector holds
NoGroupFor(r) ==
    ~LiveIn(group_cache, Unwrap(ReportHost(r)) \o ":" \o Unwrap(policy).report_to)

\* the step makes no post call, returns the task to its select and leaves
\* report i out of next_failed and out of the retry queue
TreatedAsDelivered(i) ==
    /\ posts' = posts
    /\ pc' = "select"
    /\ i \notin RetryIds'

\* C3: when the selector finds no cached NEL policy for the report's host,
\* or no cached endpoint group for that policy's report_to, the reporter
\* makes no post call for the report and the report is neither stored in
\* next_failed nor pushed onto the retry queue, on Path A and on Path B.
C3_NoEndpointNoPost ==
    [][ /\ (last'.op = "pop" /\ pc = "select" /\ NoPolicyFor(Head(report_queue)))
            => TreatedAsDelivered(Head(report_queue).id)
        /\ (last'.op = "timer" /\ pc = "select" /\ IsSome(next_failed)
                /\ NoPolicyFor(Unwrap(next_failed).original))
            => TreatedAsDelivered(Unwrap(next_failed).original.id)
        /\ (last'.op = "chooseA" /\ pc = "chooseA" /\ NoGroupFor(Unwrap(cur)))
            => TreatedAsDelivered(Unwrap(cur).id)
        /\ (last'.op = "chooseB" /\ pc = "chooseB"
                /\ NoGroupFor(Unwrap(next_failed).original))
            => TreatedAsDelivered(Unwrap(next_failed).original.id) ]_vars

\* a report whose first post failed was given up by a retry that found no
\* policy for its host
C3_Witness ==
    /\ last.op = "timer"
    /\ last.id > 0
    /\ ~last.found
    /\ posts[last.id] = 1
    /\ last.id \notin RetryIds
    /\ last.id \notin delivered

\* the step is a failed first attempt whose report is pushed onto a full
\* retry queue
FullPushA ==
    /\ pc = "postA" /\ last'.op = "postA" /\ ~last'.ok
    /\ IsSome(next_failed)
    /\ Len(failed_queue) = FailedCap

\* the step is a failed retry whose report is pushed onto a full retry queue
FullPushB ==
    /\ pc = "postB" /\ last'.op = "postB" /\ ~last'.ok
    /\ Len(failed_queue) = FailedCap

\* C4 as claimed: a failed report pushed onto a full retry queue is kept
\* and the oldest pending retry is dropped.
C4_OldestDropped ==
    [][ /\ FullPushA =>
            failed_queue' = Append(Tail(failed_queue),
                                   [last_try |-> now, original |-> Unwrap(cur)])
        /\ FullPushB => Unwrap(next_failed).original.id \in RetryIds' ]_vars

\* C4 as the code has it: a failed report pushed onto a full retry queue is
\* the one dropped; the retries pending in the queue are kept, in order.
C4_NewestDropped ==
    [][ /\ FullPushA =>
            /\ failed_queue' = failed_queue
            /\ next_failed' = next_failed
            /\ Unwrap(cur).id \notin RetryIds'
        /\ FullPushB =>
            /\ next_failed' = Some(Head(failed_queue))
            /\ failed_queue' = Tail(failed_queue)
            /\ Unwrap(next_failed).original.id \notin RetryIds' ]_vars

C4_Witness ==
    /\ last.op = "postA"
    /\ ~last.ok
    /\ ~last.slot
    /\ last.full = FailedCap
    /\ last.id \notin RetryIds
    /\ Len(failed_queue) = FailedCap

\* C5: after a post call for a report has returned true no further post
\* call is made for it; a first attempt whose post returns true has made
\* one post call and leaves the report out of the retry state; and for an
\* error report, a policy with failure_fraction 1 and a cached group of one
\* endpoint, the first attempt makes its post call to that endpoint.
C5_DeliveredOnce ==
    [][ /\ \A i \in delivered : posts'[i] = posts[i]
        /\ (last'.op = "postA" /\ pc = "postA" /\ last'.ok)
            => /\ posts'[Unwrap(cur).id] = 1
               /\ Unwrap(cur).id \in delivered'
               /\ Unwrap(cur).id \notin RetryIds'
        /\ (last'.op = "chooseA" /\ pc = "chooseA"
                /\ ~is_success(Unwrap(cur))
                /\ Unwrap(policy).failure_fraction = 10
                /\ ~NoGroupFor(Unwrap(cur)))
            => /\ pc' = "postA"
               /\ posts'[Unwrap(cur).id] = 1
               /\ \A i \in 1..Len(group_cache) :
                    (group_cache[i].key = Unwrap(ReportHost(Unwrap(cur))) \o ":"
                                            \o Unwrap(policy).report_to
                     /\ Len(group_cache[i].value) = 1)
                    => endpoint' = Some(group_cache[i].value[1]) ]_vars

\* a report delivered by its first post, and a retry of another report
\* made afterwards
C5_Witness ==
    /\ last.op = "postB"
    /\ \E i \in delivered : i # last.id /\ posts[i] = 1 /\ posts[last.id] >= 2

Range(q) == {q[i] : i \in 1..Len(q)}

\* C6: handle_reports never panics and never leaves its loop: the task is
\* always at its select, in choose_endpoint or awaiting a post call, the
\* retry timer is armed only while next_failed holds a report (so neither
\* unwrap of next_failed on the retry-timer path finds it empty), and the
\* step that ends a lookup or a post call takes the task on towards its
\* select: a post call that returns, with either result, ends at the select.
C6_NeverPanics ==
    /\ [](/\ pc \in {"select", "chooseA", "postA", "chooseB", "postB"}
          /\ (pc = "select" /\ IsSome(fail_timeout)) => IsSome(next_failed)
          /\ pc \in {"chooseB", "postB"} => IsSome(next_failed))
    /\ [][ /\ (pc \in {"postA", "postB"} /\ last'.op \in {"postA", "postB"})
                => pc' = "select"
           /\ (pc = "chooseA" /\ last'.op = "chooseA") => pc' \in {"select", "postA"}
           /\ (pc = "chooseB" /\ last'.op = "chooseB") => pc' \in {"select", "postB"}
           /\ (pc = "select" /\ last'.op = "pop") => pc' \in {"select", "chooseA"}
           /\ (pc = "select" /\ last'.op = "timer") => pc' \in {"select", "chooseB"} ]_vars

\* a retry has ended with the retry queue empty: the timer is terminated
\* and next_failed cleared
C6_Witness ==
    /\ last.op = "postB"
    /\ pc = "select"
    /\ ~IsSome(fail_timeout)
    /\ ~IsSome(next_failed)

RetryFoundNone(i) ==
    /\ last'.op \in {"timer", "chooseB"}
    /\ last'.id = i
    /\ pc' = "select"
    /\ posts' = posts

\* the step is a failed retry of report i that found the retry queue full
RetryOverflow(i) ==
    /\ FullPushB
    /\ last'.id = i

RejectedNel(raw) ==
    \/ ~raw.json
    \/ raw.report_to = <<>> \/ raw.max_age = <<>>
    \/ raw.max_age[1] < 0
    \/ raw.report_to[1] = ""
    \/ (raw.success_fraction # <<>>
            /\ (raw.success_fraction[1] < 0 \/ raw.success_fraction[1] > 10))
    \/ (raw.failure_fraction # <<>>
            /\ (raw.failure_fraction[1] < 0 \/ raw.failure_fraction[1] > 10))

\* the header value is one report_to_header rejects
RejectedReportTo(raw) ==
    \/ ~raw.json
    \/ raw.group = <<>> \/ raw.max_age = <<>> \/ raw.endpoints = <<>>
    \/ raw.max_age[1] < 0
    \/ raw.group[1] = ""
    \/ raw.endpoints[1] = <<>>
    \/ \E i \in 1..Len(raw.endpoints[1]) : raw.endpoints[1][i] = ""

\* C9: a header that is rejected leaves both caches exactly as they were.
C9_RejectedHeaderNoChange ==
    [][ ((last'.op = "nel_header" /\ RejectedNel(last'.raw))
            \/ (last'.op = "report_to_header" /\ RejectedReportTo(last'.raw)))
        => (nel_cache' = nel_cache /\ group_cache' = group_cache) ]_vars

\* a rejected header with max_age = 0 arrived for a key that has an entry
C9_Witness ==
    /\ last.op = "report_to_header"
    /\ RejectedReportTo(last.raw)
    /\ last.raw.max_age = <<0>>
    /\ last.hit
    /\ group_cache # <<>>
    /\ nel_cache # <<>>

\* C10 as claimed: after a header with max_age = 0 the cache has no entry
\* for the host (NEL) or for the host and group (Report-To).
C10_ZeroMaxAgeRemoves ==
    [][ /\ (last'.op = "nel_header" /\ last'.raw.json /\ last'.raw.max_age = <<0>>)
            => CacheIndex(nel_cache', last'.host) = {}
        /\ (last'.op = "report_to_header" /\ last'.raw.json /\ last'.raw.max_age = <<0>>
                /\ last'.raw.group # <<>>)
            => CacheIndex(group_cache', last'.host \o ":" \o last'.raw.group[1]) = {} ]_vars

\* C10 as the code has it: after a header with max_age = 0 that is not
\* rejected the cache has no entry for the host (NEL) or for the host and
\* group (Report-To), and the selector's lookup finds none.
C10_AcceptedZeroMaxAgeRemoves ==
    [][ /\ (last'.op = "nel_header" /\ ~RejectedNel(last'.raw) /\ last'.raw.max_age = <<0>>)
            => /\ CacheIndex(nel_cache', last'.host) = {}
               /\ CacheGet(nel_cache', last'.host, now') = None
        /\ (last'.op = "report_to_header" /\ ~RejectedReportTo(last'.raw)
                /\ last'.raw.max_age = <<0>>)
            => /\ CacheIndex(group_cache', last'.host \o ":" \o last'.raw.group[1]) = {}
               /\ CacheGet(group_cache', last'.host \o ":" \o last'.raw.group[1], now')
                    = None ]_vars

\* an accepted NEL header with max_age = 0 arrived for a host that had a
\* policy cached
C10_Witness ==
    /\ last.op = "nel_header"
    /\ ~RejectedNel(last.raw)
    /\ last.raw.max_age = <<0>>
    /\ last.hit
    /\ CacheIndex(nel_cache, last.host) = {}

\* the endpoint lists cached, unexpired, under key k
LiveLists(k) ==
    {group_cache[i].value : i \in {j \in 1..Len(group_cache) :
                                     group_cache[j].key = k /\ group_cache[j].expiration >= now}}

\* C11: with a policy found for the host of a success report and a
\* non-empty endpoint group cached under its report_to, the selector called
\* with evaluate_drop = true returns none when success_fraction is 0 (no
\* post call is made and the task is back at its select) and returns an
\* endpoint of the cached list when success_fraction is 1, whatever the draw.
C11_SuccessFractionDecides ==
    [][ (pc = "chooseA" /\ last'.op = "chooseA" /\ is_success(Unwrap(cur))
            /\ ~NoGroupFor(Unwrap(cur)))
        => /\ Unwrap(policy).success_fraction = 0
                => (pc' = "select" /\ posts' = posts /\ endpoint' = None)
           /\ Unwrap(policy).success_fraction = 10
                => /\ pc' = "postA"
                   /\ posts'[Unwrap(cur).id] = posts[Unwrap(cur).id] + 1
                   /\ \E l \in LiveLists("h:" \o Unwrap(policy).report_to) :
                        \E i \in 1..Len(l) : endpoint' = Some(l[i]) ]_vars

\* a success report under a policy with success_fraction 1 is being posted
\* to the second endpoint of the cached group, on the highest draw
C11_Witness ==
    /\ pc = "postA"
    /\ last.op = "chooseA"
    /\ last.u = 9
    /\ is_success(Unwrap(cur))
    /\ Unwrap(policy).success_fraction = 10
    /\ endpoint = Some("https://d/r")

\* the report the selector is called for
Selecting == IF pc \in {"chooseA", "postA"} THEN Unwrap(cur) ELSE Unwrap(next_failed).original

\* the NEL policies cached, unexpired, for host h
LivePolicies(h) ==
    {nel_cache[i].value : i \in {j \in 1..Len(nel_cache) :
                                   nel_cache[j].key = h /\ nel_cache[j].expiration >= now}}

\* the step is the one on which the selector returns an endpoint and the
\* post call is made
SelectsEndpoint ==
    /\ pc \in {"chooseA", "chooseB"}
    /\ last'.op \in {"chooseA", "chooseB"}
    /\ pc' \in {"postA", "postB"}

\* C12 as claimed: when the selector returns an endpoint, the URL is in an
\* unexpired endpoint list cached under (host, report_to) of a NEL policy
\* that is, at that moment, cached and unexpired for the report's host.
C12_PostUsesLiveEntries ==
    [][ SelectsEndpoint
        => \E pol \in LivePolicies(Unwrap(ReportHost(Selecting))) :
             \E l \in LiveLists(Unwrap(ReportHost(Selecting)) \o ":" \o pol.report_to) :
               \E i \in 1..Len(l) : endpoint' = Some(l[i]) ]_vars

\* C12 as the code has it: the policy the selector holds was cached and
\* unexpired for the report's host at the moment of the first lookup; the
\* URL of the post call is in an endpoint list that is cached and unexpired
\* under (host, report_to of that policy) at the moment of the second
\* lookup; and post calls are made on no other step.
C12_LookupsFindLiveEntries ==
    [][ /\ (pc = "select" /\ last'.op = "pop" /\ pc' = "chooseA")
            => policy' \in {Some(pol) :
                              pol \in LivePolicies(Unwrap(ReportHost(Head(report_queue))))}
        /\ (pc = "select" /\ last'.op = "timer" /\ pc' = "chooseB")
            => policy' \in {Some(pol) :
                              pol \in LivePolicies(Unwrap(ReportHost(Unwrap(next_failed).original)))}
        /\ SelectsEndpoint
            => \E l \in LiveLists(Unwrap(ReportHost(Selecting)) \o ":"
                                      \o Unwrap(policy).report_to) :
                 \E i \in 1..Len(l) : endpoint' = Some(l[i])
        /\ posts' # posts => SelectsEndpoint ]_vars

\* a retry has just been given an endpoint although the policy found by
\* the first lookup is no longer cached
C12_Witness ==
    /\ last.op = "chooseB"
    /\ pc = "postB"
    /\ IsSome(endpoint)
    /\ nel_cache = <<>>
    /\ group_cache # <<>>

\* the positions of the set_error calls made on the report
ErrorCalls == {i \in 1..Len(calls) : calls[i].op = "set_error"}

\* the last set_error call made on the report
LastErrorCall == calls[CHOOSE i \in ErrorCalls : \A j \in ErrorCalls : j <= i]

\* C13 as claimed: a report whose protocol is "wireguard" and whose error
\* the classifier gave class tcp serializes with the wire type udp.<subclass>,
\* whatever the order of the set_protocol and set_error calls.
C13_WireguardAnyOrder ==
    [][ (last'.op = "serialize" /\ nel_report.protocol = "wireguard"
            /\ ErrorCalls # {} /\ LastErrorCall.class = "tcp")
        => Unwrap(wire').type = "udp." \o LastErrorCall.subclass ]_vars

\* C13 as the code has it: the substitution is made by set_error from the
\* protocol the report has at that call.  A report that had the protocol
\* "wireguard" when set_error was last called with an error of class tcp
\* serializes with the type udp.<subclass>; one that had another protocol at
\* that call serializes with tcp.<subclass>, also when set_protocol made it
\* "wireguard" afterwards.
C13_WireguardAtSetError ==
    [][ (last'.op = "serialize" /\ ErrorCalls # {} /\ LastErrorCall.class = "tcp")
        => /\ LastErrorCall.protocol = "wireguard"
                => /\ Unwrap(wire').type = "udp." \o LastErrorCall.subclass
                   /\ Unwrap(wire').phase = "connection"
           /\ LastErrorCall.protocol # "wireguard"
                => Unwrap(wire').type = "tcp." \o LastErrorCall.subclass ]_vars

\* set_protocol("wireguard"), then set_error of a connection timeout, then
\* serialize
C13_Witness ==
    /\ last.op = "serialize"
    /\ Len(calls) = 2
    /\ calls[1].op = "set_protocol"
    /\ calls[2].op = "set_error"
    /\ nel_report.protocol = "wireguard"
    /\ wire = Some([protocol |-> "wireguard", phase |-> "connection",
                    type |-> "udp.timed_out"])

\* contains that ignores the case of the text searched
contains_ignore_case(str, pat) == contains(to_lowercase(str), to_lowercase(pat))

\* the result of the set_error call the step makes
Classified == Error_new(calls'[Len(calls')].class, calls'[Len(calls')].subclass)

\* rule 1: the kinds of I/O error recognised and their subclass of class tcp
KindTable ==
    [TimedOut |-> "timed_out", ConnectionReset |-> "reset",
     ConnectionRefused |-> "refused", ConnectionAborted |-> "aborted"]

\* rule 2 as the spec lists it
MessageTable ==
    << <<"no address", "dns", "name_not_resolved">>,
       <<"name or service not known", "dns", "name_not_resolved">>,
       <<"no route to host", "tcp", "address_unreachable">>,
       <<"unreachable", "tcp", "address_unreachable">>,
       <<"expired", "tls", "cert.date_invalid">>,
       <<"unknownissuer", "tls", "cert.authority_invalid">>,
       <<"certnotvalidforname", "tls", "cert.name_invalid">>,
       <<"hostname mismatch", "tls", "cert.name_invalid">>,
       <<"certificate has expired", "tls", "cert.date_invalid">>,
       <<"self signed certificate in certificate chain", "tls", "cert.authority_invalid">> >>

\* rule 3: the categories of HTTP-client error, in order
CategoryTable ==
    << <<"connect", "tcp", "failed">>,
       <<"parse", "http", "response.invalid">>,
       <<"user", "http", "protocol.error">>,
       <<"incomplete_message", "tcp", "closed">>,
       <<"body_write_aborted", "abandoned", "">>,
       <<"timeout", "tcp", "timed_out">>,
       <<"closed", "tcp", "reset">>,
       <<"canceled", "tcp", "aborted">> >>

Least(S) == CHOOSE i \in S : \A j \in S : i <= j

\* the classification by rules 1 to 5 taken in the stated order, each rule
\* looking at the error and the errors of its source chain
ClaimedError(chain) ==
    LET kinds == {i \in 1..Len(chain) :
                    chain[i].ty = "io" /\ chain[i].kind \in DOMAIN KindTable}
        msgs == {k \in 1..Len(MessageTable) : \E i \in 1..Len(chain) :
                    contains_ignore_case(chain[i].message, MessageTable[k][1])}
        cats == {k \in 1..Len(CategoryTable) : \E i \in 1..Len(chain) :
                    chain[i].ty = "hyper" /\ CategoryTable[k][1] \in chain[i].is}
    IN  IF kinds # {} THEN Error_new("tcp", KindTable[chain[Least(kinds)].kind])
        ELSE IF msgs # {}
        THEN Error_new(MessageTable[Least(msgs)][2], MessageTable[Least(msgs)][3])
        ELSE IF cats # {}
        THEN Error_new(CategoryTable[Least(cats)][2], CategoryTable[Least(cats)][3])
        ELSE IF \E i \in 1..Len(chain) : chain[i].inner = "rustls"
        THEN Error_new("tls", "protocol.error")
        ELSE Error_new("unknown", chain[1].message)

IoMessageTable == SubSeq(MessageTable, 1, 7)

\* the patterns looked for, as written, in the message of the source of a
\* connect error
ConnectMessageTable ==
    << <<"Hostname mismatch", "tls", "cert.name_invalid">>,
       <<"certificate has expired", "tls", "cert.date_invalid">>,
       <<"self signed certificate in certificate chain", "tls", "cert.authority_invalid">> >>

\* the rows of the table whose pattern is in str, as written
Hits(table, str) == {k \in 1..Len(table) : contains(str, table[k][1])}

\* the error the classifier starts from: the error given, or for a
\* reqwest::Error the first hyper::Error of its source chain (the empty
\* chain when there is none)
Examined(chain) ==
    IF chain[1].ty # "reqwest" THEN chain
    ELSE IF SourcesOfType(chain, "hyper") = {} THEN <<>>
    ELSE SubSeq(chain, Least(SourcesOfType(chain, "hyper")), Len(chain))

\* the positions in chain of the io::Error the classifier goes by
IoExamined(chain) ==
    IF chain = <<>> THEN {}
    ELSE IF chain[1].ty = "io" THEN {1}
    ELSE IF SourcesOfType(chain, "io") = {} THEN {}
    ELSE {Least(SourcesOfType(chain, "io"))}

\* what is said of an io::Error io classified as e
IoRules(io, e) ==
    LET hits == Hits(IoMessageTable, to_lowercase(io.message))
    IN  /\ io.kind \in DOMAIN KindTable => e = Error_new("tcp", KindTable[io.kind])
        /\ (io.kind \notin DOMAIN KindTable /\ hits # {})
            => e = Error_new(IoMessageTable[Least(hits)][2], IoMessageTable[Least(hits)][3])
        /\ (io.kind \notin DOMAIN KindTable /\ hits = {})
            => /\ io.inner = "none" => e = Error_new("tcp", "failed")
               /\ io.inner = "rustls" => e = Error_new("tls", "protocol.error")
               /\ io.inner = "other" => e = Error_new("unknown", io.message)

\* what is said of a hyper::Error with no io::Error in its source chain,
\* classified as e
HyperRules(chain, e) ==
    LET cats == {k \in 1..Len(CategoryTable) : CategoryTable[k][1] \in chain[1].is}
        hits == IF Len(chain) >= 2 THEN Hits(ConnectMessageTable, chain[2].message) ELSE {}
    IN  /\ cats = {} => e = Error_new("unknown", chain[1].message)
        /\ (cats # {} /\ Least(cats) > 1)
            => e = Error_new(CategoryTable[Least(cats)][2], CategoryTable[Least(cats)][3])
        /\ (cats # {} /\ Least(cats) = 1 /\ hits = {}) => e = Error_new("tcp", "failed")
        /\ (cats # {} /\ Least(cats) = 1 /\ hits # {})
            => e = Error_new(ConnectMessageTable[Least(hits)][2],
                             ConnectMessageTable[Least(hits)][3])

PathBPopsNext ==
    /\ pc \in {"select", "chooseB", "postB"}
    /\ last'.op \in {"timer", "chooseB", "postB"}
    /\ pc' = "select"
    /\ IsSome(next_failed')

Max(a, b) == IF a >= b THEN a ELSE b

\* C15: when the retry-timer path pops the next retry-queue entry f, the
\* timer it arms sleeps for max(10ms, RETRY_TIMEOUT - (now - f.last_try)):
\* never less than 10ms, and exactly 10ms when f.last_try is two retry
\* timeouts in the past.
C15_RetryFloor ==
    [][ PathBPopsNext
        => LET f == Unwrap(next_failed')
               dur == Unwrap(fail_timeout') - now
           IN  /\ IsSome(fail_timeout')
               /\ dur = Max(RetryFloor, RETRY_TIMEOUT - (now - f.last_try))
               /\ dur >= RetryFloor
               /\ now - f.last_try = 2 * RETRY_TIMEOUT => dur = RetryFloor ]_vars

\* C16: when the post call of a first attempt returns false, the report
\* enters the retry path with last_try = now: with next_failed empty it
\* becomes next_failed and the timer is armed for RETRY_TIMEOUT; otherwise
\* it is try-pushed onto the retry queue, and next_failed and the armed
\* timer stay as they are.
C16_FirstFailureEntersRetry ==
    [][ (pc = "postA" /\ last'.op = "postA" /\ ~last'.ok)
        => LET failed == [last_try |-> now, original |-> Unwrap(cur)]
           IN  /\ ~IsSome(next_failed)
                    => /\ next_failed' = Some(failed)
                       /\ fail_timeout' = Some(now + RETRY_TIMEOUT)
                       /\ failed_queue' = failed_queue
               /\ IsSome(next_failed)
                    => /\ next_failed' = next_failed
                       /\ fail_timeout' = fail_timeout
                       /\ failed_queue' = IF Len(failed_queue) < FailedCap
                                          THEN Append(failed_queue, failed)
                                          ELSE failed_queue ]_vars

\* a first attempt failed while another report was in next_failed with its
\* timer armed earlier, and the report is now the last of the retry queue
C16_Witness ==
    /\ last.op = "postA"
    /\ ~last.ok
    /\ ~last.slot
    /\ last.full < FailedCap
    /\ failed_queue # <<>>
    /\ failed_queue[Len(failed_queue)].original.id = last.id
    /\ failed_queue[Len(failed_queue)].last_try = now
    /\ IsSome(next_failed)
    /\ Unwrap(fail_timeout) < now + RETRY_TIMEOUT

\* the sampling fraction of the policy that applies to report r
FractionFor(pol, r) == IF is_success(r) THEN pol.success_fraction ELSE pol.failure_fraction

\* C17: a retry for which the selector finds a policy and a non-empty
\* endpoint group makes a post call whatever the sampling fractions of the
\* policy and whatever the draw, while a first attempt makes its post call
\* only when the draw is below the fraction that applies to the report.
C17_RetriesBypassSampling ==
    [][ /\ (pc = "chooseB" /\ last'.op = "chooseB"
                /\ ~NoGroupFor(Unwrap(next_failed).original))
            => /\ pc' = "postB"
               /\ IsSome(endpoint')
               /\ posts'[Unwrap(next_failed).original.id]
                    = posts[Unwrap(next_failed).original.id] + 1
        /\ (pc = "chooseA" /\ last'.op = "chooseA" /\ ~NoGroupFor(Unwrap(cur)))
            => (pc' = "postA" <=> last'.u < FractionFor(Unwrap(policy), Unwrap(cur))) ]_vars

\* a retry is being posted under a policy whose fractions are both 0, on a
\* draw that drops every first attempt
C17_Witness ==
    /\ last.op = "chooseB"
    /\ last.u = 9
    /\ pc = "postB"
    /\ Unwrap(policy).success_fraction = 0
    /\ Unwrap(policy).failure_fraction = 0
    /\ posts[last.id] = 2

\* q1 is q with reports appended
Extends(q1, q) == Len(q1) >= Len(q) /\ SubSeq(q1, 1, Len(q)) = q

\* C18: at most one post call is in flight at any moment, and while a post
\* call is awaited the reporter takes no report out of the intake queue
\* and handles no firing of the retry timer: until the post call returns,
\* the intake queue only grows and the state of the task stays as it is.
C18_OnePostInFlight ==
    /\ [](/\ in_flight <= 1
          /\ in_flight = 1 <=> pc \in {"postA", "postB"})
    /\ [][ (pc \in {"postA", "postB"})
            => /\ last'.op \notin {"pop", "timer", "chooseA", "chooseB"}
               /\ popped' = popped
               /\ posts' = posts
               /\ Extends(report_queue', report_queue)
               /\ last'.op \notin {"postA", "postB"}
                    => (taskVars' = taskVars /\ in_flight' = in_flight) ]_vars

\* a report was submitted while a first attempt was being posted and the
\* retry timer of an earlier report had expired
C18_Witness ==
    /\ pc = "postA"
    /\ in_flight = 1
    /\ last.op = "submit_report"
    /\ report_queue # <<>>
    /\ report_queue[Len(report_queue)].id = last.id
    /\ IsSome(fail_timeout)
    /\ now >= Unwrap(fail_timeout)

\* the step ends Path B: the retry of next_failed is over and the task is
\* back at its select
EndsPathB ==
    /\ pc \in {"select", "chooseB", "postB"}
    /\ last'.op \in {"timer", "chooseB", "postB"}
    /\ pc' = "select"

\* the step is a retry whose post call returned false
RetryFailed == last'.op = "postB" /\ ~last'.ok

\* C19: whenever the reporter waits at its select, next_failed holds a
\* report exactly when the retry timer is armed; Path B leaves the timer
\* disarmed exactly when it clears next_failed, which it does exactly when
\* it finds the retry queue empty (nothing was queued and the retry did not
\* fail); and no other step that ends at the select disarms or changes an
\* armed timer or next_failed.
C19_TimerIffNextFailed ==
    /\ [](pc = "select" => (IsSome(next_failed) <=> IsSome(fail_timeout)))
    /\ [][ /\ EndsPathB
                => /\ ~IsSome(fail_timeout') <=> ~IsSome(next_failed')
                   /\ ~IsSome(next_failed') <=> (failed_queue = <<>> /\ ~RetryFailed)
           /\ (~EndsPathB /\ pc' = "select" /\ IsSome(next_failed))
                => (fail_timeout' = fail_timeout /\ next_failed' = next_failed) ]_vars

\* a retry failed while the retry queue was empty: the report is
\* next_failed again and the timer is armed for it
C19_Witness ==
    /\ last.op = "postB"
    /\ ~last.ok
    /\ last.full = 0
    /\ pc = "select"
    /\ IsSome(next_failed)
    /\ Unwrap(next_failed).original.id = last.id
    /\ fail_timeout = Some(now + RETRY_TIMEOUT)

\* the ids of the reports the reporter holds: the one popped and being
\* handled, next_failed and the retry queue
HeldIds == {cur[i].id : i \in 1..Len(cur)} \cup RetryIds

\* the step drops report i on a full retry queue
OverflowDrop(i) ==
    \/ FullPushA /\ Unwrap(cur).id = i
    \/ FullPushB /\ Unwrap(next_failed).original.id = i

\* the step is the return of a post call for report i with the result true
PostReturnedTrue(i) ==
    /\ last'.op \in {"postA", "postB"}
    /\ last'.id = i
    /\ last'.ok
    /\ i \in delivered'

\* the step is one on which the selector returned none for report i: no
\* post call is made and the task is back at its select
SelectorNone(i) ==
    /\ last'.op \in {"pop", "chooseA", "timer", "chooseB"}
    /\ last'.id = i
    /\ pc' = "select"
    /\ posts' = posts

\* C20 as claimed: a report popped from the intake queue stays with the
\* reporter (being handled, in next_failed or in the retry queue) until a
\* post call for it has returned true or an overflow of the retry queue
\* drops it.
C20_DestroyedOnlyWhenDelivered ==
    [][ /\ \A i \in HeldIds : i \notin HeldIds' => (i \in delivered' \/ OverflowDrop(i))
        /\ last'.op = "pop" => last'.id \in HeldIds' ]_vars

\* C20 as the code has it: a report popped from the intake queue leaves the
\* reporter only on the return of a post call for it with the result true,
\* on an overflow of the retry queue, or on a step on which the selector
\* returned none for it (first attempt or retry), which the reporter counts
\* as a success without a post call.
C20_DestroyedWhenDone ==
    [][ /\ \A i \in HeldIds : i \notin HeldIds'
            => (PostReturnedTrue(i) \/ OverflowDrop(i) \/ SelectorNone(i))
        /\ (last'.op = "pop" /\ last'.id \notin HeldIds')
            => (SelectorNone(last'.id) /\ ~last'.found)
        /\ \A i \in HeldIds' : i \in HeldIds \/ (last'.op = "pop" /\ last'.id = i) ]_vars

\* a first attempt found no endpoint group and the report is gone without
\* a post call
C20_Witness ==
    /\ last.op = "chooseA"
    /\ last.result = "nogroup"
    /\ last.id \in Range(popped)
    /\ last.id \notin HeldIds
    /\ last.id \notin delivered
    /\ posts[last.id] = 0

\* the step starts a retry of next_failed: the timer branch is taken, or
\* the post call of the retry is made
StartsRetry ==
    \/ last'.op = "timer" /\ IsSome(next_failed)
    \/ last'.op = "chooseB" /\ last'.result = "post"

\* the step is the return of a post call with the result false after which
\* the entry e for the report is in next_failed or in the retry queue
StoredAfterFailure(e) ==
    /\ last'.op \in {"postA", "postB"}
    /\ ~last'.ok
    /\ e.original.id = last'.id
    /\ \/ next_failed' = Some(e)
       \/ \E i \in 1..Len(failed_queue') : failed_queue'[i] = e

RetryEntries(nf, fq) == {nf[i] : i \in 1..Len(nf)} \cup {fq[i] : i \in 1..Len(fq)}

\* C21: at least RETRY_TIMEOUT elapses between two post attempts for the
\* same report: a failed post call records its time of return as last_try,
\* that value is kept while the report waits in next_failed or in the retry
\* queue, and the retry (the timer branch and its post call) starts no
\* earlier than last_try + RETRY_TIMEOUT.
C21_RetryNotBeforeTimeout ==
    [][ /\ StartsRetry => now >= Unwrap(next_failed).last_try + RETRY_TIMEOUT
        /\ \A e \in RetryEntries(next_failed', failed_queue') :
               StoredAfterFailure(e) => e.last_try = now
        /\ \A e \in RetryEntries(next_failed', failed_queue') :
               ~StoredAfterFailure(e) => e \in RetryEntries(next_failed, failed_queue) ]_vars

\* the retry of a report that waited in the retry queue and whose timer was
\* armed with the 10 ms of line 207 has started
C21_Witness ==
    /\ last.op = "timer"
    /\ last.found
    /\ pc = "chooseB"
    /\ last.deadline = Unwrap(next_failed).last_try + RETRY_TIMEOUT + 2 * RetryFloor
    /\ now = last.deadline
    /\ posts[last.id] = 1

PairHosts == {"h", "h:x"}
PairGroups == {"g", "x:g"}

\* the endpoint list the selector finds in cache c for a report of the
\* given host under a policy that names the given group
SelectorFinds(c, host, group) ==
    LookupGroup(c, [host_override |-> Some(host)], [report_to |-> group], now)

\* the step is a report_to_header call that carries a group name
GroupCall == last'.op = "report_to_header" /\ IsSome(last'.raw.group)

\* the step is an insert of a new key into a cache that holds CacheCap
\* entries, which pushes out the oldest entry, the one of key k
EvictsKey(k) ==
    /\ Len(group_cache) = CacheCap
    /\ ~last'.hit
    /\ group_cache' # group_cache
    /\ Head(group_cache).key = k

====
